---- MODULE Spec2Model ----
(***************************************************************************)
(* The yikes password manager: the session / authentication routes, the   *)
(* credential routes, the auth pages of the web client and the            *)
(* EncryptionService.                                                      *)
(*                                                                         *)
(* The server is modelled as a set of request slots that run the express  *)
(* handlers concurrently.  A handler is cut at its `await db.query(...)`  *)
(* points: every action below is one database statement together with    *)
(* the synchronous code that follows it up to the next await (or up to    *)
(* the response).  The database tables are shared state; each statement   *)
(* is atomic and may fail (storage error, pool timeout), which the        *)
(* handlers turn into their catch-all 500 answer.  `resp` is the answer  *)
(* sent by the step just taken (NoResp when the step sent none);          *)
(* `issued` are the tokens clients were handed, `revoked` the tokens      *)
(* whose row a logout deleted, with the number of requests received by    *)
(* then.                                                                   *)
(*                                                                         *)
(* Time is counted in ticks; TicksPerSecond ticks make one second, so     *)
(* that the whole-second `iat`/`exp` of a JWT and the millisecond         *)
(* `expires_at` of a sessions row are different quantities.               *)
(*                                                                         *)
(* Assumptions: a row read from `users` carries the fields of the `User`  *)
(* interface the handlers read (passwordHash, twoFactorEnabled,           *)
(* twoFactorSecret), and `this.db` inside a controller is the             *)
(* controller's connection.  The rate limiter in front of the router and  *)
(* the folder and tag tables are outside this model.                      *)
(***************************************************************************)
EXTENDS Integers, Sequences, FiniteSets, TLC

VARIABLES now, users, sessions, audit, req, resp, issued, revoked, nreq, budget, faults,
          credentials, history, creq, cresp, trail, wire, envelopes, derived, limiter,
          store, interceptor, pool

\* the credential vault: tables credentials and password_history, the
\* credential requests in flight, the answer just sent, and the order in
\* which effects and audit rows of credential requests reached the database
credVars == <<credentials, history, creq, cresp, trail>>

\* the web client: the request bodies it has put on the wire, the auth
\* store, and the response interceptor of its axios instance
clientVars == <<wire, store, interceptor>>

\* the calls of EncryptionService: encrypt / decrypt and deriveMasterKey
cipherVars == <<envelopes, derived>>

\* the rate limiter in front of the router, and a call of
\* DatabaseConnection.query / transaction with its pool client
infraVars == <<limiter, pool>>

\* the session subsystem
authVars == <<now, users, sessions, req, resp, issued, revoked>>

vars == <<now, users, sessions, audit, req, resp, issued, revoked, nreq, budget, faults,
          credentials, history, creq, cresp, trail, wire, envelopes, derived, limiter,
          store, interceptor, pool>>

(***************************************************************************)
(* Bounds of the model.                                                    *)
(***************************************************************************)
TicksPerSecond == 2
DaySeconds == 1
MaxTime == 4
MaxRequests == 2
MaxFaults == 1

Slots == {1, 2}

DayTicks == DaySeconds * TicksPerSecond

(***************************************************************************)
(* Values.                                                                 *)
(***************************************************************************)
NoUser == 0
NoToken == [uid |-> 0, iat |-> 0, exp |-> 0, sig |-> "none"]
NoCode == "nocode"
NoSecret == ""

\* a bearer value that was not signed with JWT_SECRET
ForgedToken == [uid |-> 1, iat |-> 0, exp |-> 7 * DaySeconds, sig |-> "bad"]

EmailInputs == {"", "alice", "Alice", "bob", "dan", "carol"}
PasswordInputs == {"", "CorrectHorseBattery1!", "wrongpassword"}
CodeInputs == {NoCode, "K2", "K9"}
RegisterEmails == {"", "alice", "carol", "Carol"}
RegisterPasswords == {"", "CorrectHorseBattery1!", "short"}

\* String.prototype.toLowerCase on the addresses of the model
ToLower(e) ==
    CASE e = "Alice" -> "alice"
      [] e = "Carol" -> "carol"
      [] OTHER -> e

\* bcrypt.hash / bcrypt.compare: the hash is a one-way image of the password
HashPassword(p) == <<"bcrypt", p>>
VerifyPassword(p, h) == h = <<"bcrypt", p>>

\* otplib authenticator.verify({token, secret}): codes are named after the
\* secret that generates them; no code verifies against a NULL secret
TotpVerify(code, secret) == secret # NoSecret /\ code # NoCode /\ code = secret

(***************************************************************************)
(* jsonwebtoken: sign puts iat = floor(now / 1000) and exp = iat + span;   *)
(* verify accepts a token signed with the secret whose exp is after the    *)
(* current whole second.                                                   *)
(***************************************************************************)
JwtSign(uid, t, spanSeconds) ==
    [uid |-> uid, iat |-> t \div TicksPerSecond,
     exp |-> (t \div TicksPerSecond) + spanSeconds, sig |-> "ok"]

JwtVerify(tok, t) == tok.sig = "ok" /\ (t \div TicksPerSecond) < tok.exp

LoginSpanSeconds(rememberMe) == IF rememberMe THEN 7 * DaySeconds ELSE DaySeconds
LoginExpiresAt(t, rememberMe) == t + (IF rememberMe THEN 7 ELSE 1) * DayTicks
RefreshSpanSeconds == DaySeconds
RefreshExpiresAt(t) == t + DayTicks

(***************************************************************************)
(* Tables.                                                                 *)
(***************************************************************************)
UserRow(id, email, pw, tfa, secret) ==
    [id |-> id, email |-> email, passwordHash |-> HashPassword(pw),
     twoFactorEnabled |-> tfa, twoFactorSecret |-> secret]

SessionRow(id, uid, tok, exp) ==
    [id |-> id, user_id |-> uid, token |-> tok, expires_at |-> exp]

AuditRow(uid, action, details) ==
    [user_id |-> uid, action |-> action, details |-> details]

\* an INSERT that overwrites the newest row instead of adding one
AuditOverwriteNewest(log, row) ==
    IF log = <<>> THEN <<row>> ELSE [log EXCEPT ![Len(log)] = row]

\* INSERT INTO security_audit (...) VALUES (...)
AuditInsert(log, row) == Append(log, row)

UsersByEmail(e) == {u \in users : u.email = e}
UsersById(id) == {u \in users : u.id = id}

\* the lookup without its expiry condition
SelectSessionsAnyExpiry(tok) == {s \in sessions : s.token = tok}

\* SELECT * FROM sessions WHERE token = $1 AND expires_at > NOW()
SelectValidSessions(tok) ==
    {s \in sessions : s.token = tok /\ s.expires_at > now}

\* a sessions table whose token column has no UNIQUE constraint
TokenNeverTaken(tok) == FALSE

\* sessions.token is UNIQUE
TokenTaken(tok) == \E s \in sessions : s.token = tok

(***************************************************************************)
(* Requests.                                                               *)
(***************************************************************************)
IdleReq ==
    [kind |-> "none", pc |-> "idle", n |-> 0, bearer |-> NoToken,
     user |-> NoUser, check |-> "none", code |-> NoCode,
     token |-> NoToken, expiresAt |-> 0, email |-> "", password |-> ""]

NoResp ==
    [kind |-> "none", status |-> 0, error |-> "", data |-> NoToken,
     bearer |-> NoToken, user |-> NoUser, check |-> "none", code |-> NoCode,
     stage |-> "idle", n |-> 0]

\* a new request is taken by the first idle slot
Free(r) ==
    /\ req[r].pc = "idle"
    /\ \A o \in Slots : o < r => req[o].pc # "idle"
    /\ nreq < budget

\* res.status(s).json({success, error, data}) of request q
Answer(q, status, error, data) ==
    [kind |-> q.kind, status |-> status, error |-> error, data |-> data,
     bearer |-> q.bearer, user |-> q.user, check |-> q.check, code |-> q.code,
     stage |-> q.pc, n |-> q.n]

\* the request in slot r answers and the slot is idle again
Respond(r, q, status, error, data) ==
    /\ resp' = Answer(q, status, error, data)
    /\ req' = [req EXCEPT ![r] = IdleReq]

\* the storage layer throws (error, pool timeout) at most MaxFaults times
CanFail == faults < MaxFaults

(***************************************************************************)
(* The credential vault, the web client and the cipher before any request. *)
(***************************************************************************)
\* JSON values of a request body.  A sensitive field arrives as the client's
\* envelope (ciphertext with nonce and tag) or as the text the user typed;
\* the server sees a string either way.  Absent is a key the body lacks.
Absent == [kind |-> "absent", v |-> 0]
Text(k) == [kind |-> "text", v |-> k]
Num(k) == [kind |-> "number", v |-> k]
Envelope(k) == [kind |-> "envelope", v |-> k]
Plain(k) == [kind |-> "plain", v |-> k]

\* the keys a body of the model can carry; `color` is no column of credentials
NoBody == [title |-> Absent, password |-> Absent, user_id |-> Absent, color |-> Absent]
NoCredential == 0

IdleCred ==
    [kind |-> "none", pc |-> "idle", n |-> 0, user |-> NoUser,
     cid |-> NoCredential, body |-> NoBody, title |-> Absent]

NoCredResp ==
    [kind |-> "none", status |-> 0, error |-> "", data |-> {},
     user |-> NoUser, cid |-> NoCredential, n |-> 0]

EmptyVault ==
    /\ credentials = {}
    /\ history = <<>>
    /\ creq = [r \in Slots |-> IdleCred]
    /\ cresp = NoCredResp
    /\ trail = <<>>

\* the auth store as created: nobody logged in, no Authorization default
\* header (0 stands for null / not set)
LoggedOut ==
    [user |-> 0, token |-> 0, isAuthenticated |-> FALSE, isLoading |-> FALSE,
     error |-> "", header |-> 0, ops |-> 0, pending |-> "none", last |-> "none"]

\* the response interceptor with no request under way
Quiet ==
    [stack |-> <<>>, result |-> "none", settled |-> "none", stored |-> FALSE,
     redirected |-> FALSE, refreshes |-> 0, retries |-> 0, saw401 |-> FALSE,
     calls |-> 0]

NothingSent == wire = <<>> /\ store = LoggedOut /\ interceptor = Quiet
NothingSealed == envelopes = <<>> /\ derived = <<>>

\* createRateLimiter not called yet
Unlimited ==
    [made |-> FALSE, maxRequests |-> 0, windowMs |-> 0, now |-> 0,
     requests |-> <<>>, admitted |-> <<>>, status |-> 0, ip |-> 0, n |-> 0]

\* no call of DatabaseConnection.query / transaction under way
IdlePool ==
    [kind |-> "none", pc |-> "idle", acquired |-> 0, released |-> 0,
     statements |-> <<>>, callback |-> "none", thrown |-> "none", runs |-> 0]

NoLimiter == limiter = Unlimited /\ pool = IdlePool

Init ==
    /\ EmptyVault /\ NothingSent /\ NothingSealed /\ NoLimiter
    /\ now = 0
    /\ users = {UserRow(1, "alice", "CorrectHorseBattery1!", FALSE, NoSecret),
                UserRow(2, "bob", "CorrectHorseBattery1!", TRUE, "K2"),
                UserRow(3, "dan", "CorrectHorseBattery1!", TRUE, NoSecret)}
    /\ sessions = {}
    /\ audit = <<>>
    /\ req = [r \in Slots |-> IdleReq]
    /\ resp = NoResp
    /\ issued = {}
    /\ revoked = {}
    /\ nreq = 0
    /\ budget = MaxRequests
    /\ faults = 0

\* the clock advances
Tick ==
    /\ now < MaxTime
    /\ now' = now + 1
    /\ resp' = NoResp
    /\ UNCHANGED <<users, sessions, audit, req, issued, revoked, nreq, budget, faults>>
    /\ UNCHANGED <<credVars, clientVars, cipherVars, infraVars>>

(***************************************************************************)
(* AuthController.login                                                    *)
(***************************************************************************)
\* login that never enters the second-factor branch
LoginCheckPasswordOnly(rows, password, code) ==
    IF rows = {} THEN "nouser"
    ELSE LET user == CHOOSE u \in rows : TRUE IN
         IF ~VerifyPassword(password, user.passwordHash) THEN "badpw" ELSE "ok"

\* which check of login rejects the request, in the order the code runs them
LoginCheck(rows, password, code) ==
    IF rows = {} THEN "nouser"
    ELSE LET user == CHOOSE u \in rows : TRUE IN
         IF ~VerifyPassword(password, user.passwordHash) THEN "badpw"
         ELSE IF user.twoFactorEnabled /\ code = NoCode THEN "nootp"
         ELSE IF user.twoFactorEnabled /\ ~TotpVerify(code, user.twoFactorSecret)
              THEN "badotp"
         ELSE "ok"

LoginFailStatus(check) == IF check = "nootp" THEN 400 ELSE 401

LoginFailError(check) ==
    CASE check = "nouser" -> "Invalid credentials"
      [] check = "badpw"  -> "Invalid credentials"
      [] check = "nootp"  -> "Two-factor authentication code required"
      [] check = "badotp" -> "Invalid two-factor authentication code"

LoginFailDetails(check) ==
    IF check = "badpw" THEN "Invalid password" ELSE "Invalid 2FA code"

\* the checks that write a LOGIN_FAILED row before they answer
LoginFailAudited(check) == check \in {"badpw", "badotp"}

\* authenticator.verify is handed a NULL secret: depending on the otplib
\* release it returns false or throws
TotpThrows(rows, password, code) ==
    /\ LoginCheck(rows, password, code) = "badotp"
    /\ \E u \in rows : u.twoFactorSecret = NoSecret

\* request received; SELECT * FROM users WHERE email = $1; password and
\* second-factor checks; jwt.sign
Login(r, email, password, code, rememberMe) ==
    /\ Free(r)
    /\ nreq' = nreq + 1
    /\ LET q == [IdleReq EXCEPT !.kind = "login", !.n = nreq + 1]
           rows == UsersByEmail(ToLower(email))
           check == LoginCheck(rows, password, code)
           uid == IF rows = {} THEN NoUser ELSE (CHOOSE u \in rows : TRUE).id
           \* twoFactorCode is read only for an account with the second factor
           read == \E u \in rows : u.twoFactorEnabled
           qu == [q EXCEPT !.user = uid, !.check = check,
                           !.code = IF read THEN code ELSE NoCode]
       IN
       IF email = "" \/ password = ""
       THEN /\ Respond(r, q, 400, "Email and password are required", NoToken)
            /\ UNCHANGED faults
       ELSE \/ /\ CanFail
               /\ faults' = faults + 1
               /\ Respond(r, q, 500, "Login failed", NoToken)
            \/ /\ check = "ok"
               /\ req' = [req EXCEPT ![r] =
                     [qu EXCEPT !.pc = "login_session",
                                !.token = JwtSign(uid, now, LoginSpanSeconds(rememberMe)),
                                !.expiresAt = LoginExpiresAt(now, rememberMe)]]
               /\ resp' = NoResp /\ UNCHANGED faults
            \/ /\ LoginFailAudited(check)
               /\ req' = [req EXCEPT ![r] = [qu EXCEPT !.pc = "login_audit_fail"]]
               /\ resp' = NoResp /\ UNCHANGED faults
            \/ /\ TotpThrows(rows, password, code)
               /\ Respond(r, qu, 500, "Login failed", NoToken)
               /\ UNCHANGED faults
            \/ /\ check \in {"nouser", "nootp"}
               /\ Respond(r, qu, LoginFailStatus(check), LoginFailError(check), NoToken)
               /\ UNCHANGED faults
    /\ UNCHANGED <<now, users, sessions, audit, issued, revoked, budget>>
    /\ UNCHANGED <<credVars, clientVars, cipherVars, infraVars>>

\* INSERT INTO security_audit ... 'LOGIN_FAILED'; res.status(401)
LoginAuditFail(r) ==
    /\ req[r].pc = "login_audit_fail"
    /\ \/ /\ CanFail
          /\ faults' = faults + 1
          /\ Respond(r, req[r], 500, "Login failed", NoToken)
          /\ UNCHANGED audit
       \/ /\ audit' = AuditInsert(audit, AuditRow(req[r].user, "LOGIN_FAILED",
                                             LoginFailDetails(req[r].check)))
          /\ Respond(r, req[r], LoginFailStatus(req[r].check),
                     LoginFailError(req[r].check), NoToken)
          /\ UNCHANGED faults
    /\ UNCHANGED <<now, users, sessions, issued, revoked, nreq, budget>>
    /\ UNCHANGED <<credVars, clientVars, cipherVars, infraVars>>

\* INSERT INTO sessions (id, user_id, token, expires_at, ...)
LoginSession(r) ==
    /\ req[r].pc = "login_session"
    /\ \/ /\ CanFail
          /\ faults' = faults + 1
          /\ Respond(r, req[r], 500, "Login failed", NoToken)
          /\ UNCHANGED sessions
       \/ /\ TokenTaken(req[r].token)
          /\ Respond(r, req[r], 500, "Login failed", NoToken)
          /\ UNCHANGED <<sessions, faults>>
       \/ /\ ~TokenTaken(req[r].token)
          /\ sessions' = sessions \cup
                {SessionRow(req[r].n, req[r].user, req[r].token, req[r].expiresAt)}
          /\ req' = [req EXCEPT ![r].pc = "login_update"]
          /\ resp' = NoResp /\ UNCHANGED faults
    /\ UNCHANGED <<now, users, audit, issued, revoked, nreq, budget>>
    /\ UNCHANGED <<credVars, clientVars, cipherVars, infraVars>>

\* UPDATE users SET last_login_at = NOW() WHERE id = $1
LoginUpdate(r) ==
    /\ req[r].pc = "login_update"
    /\ \/ /\ CanFail
          /\ faults' = faults + 1
          /\ Respond(r, req[r], 500, "Login failed", NoToken)
       \/ /\ req' = [req EXCEPT ![r].pc = "login_audit"]
          /\ resp' = NoResp /\ UNCHANGED faults
    /\ UNCHANGED <<now, users, sessions, audit, issued, revoked, nreq, budget>>
    /\ UNCHANGED <<credVars, clientVars, cipherVars, infraVars>>

\* INSERT INTO security_audit ... 'LOGIN_SUCCESS'; res.json({token, user})
LoginAudit(r) ==
    /\ req[r].pc = "login_audit"
    /\ \/ /\ CanFail
          /\ faults' = faults + 1
          /\ Respond(r, req[r], 500, "Login failed", NoToken)
          /\ UNCHANGED <<audit, issued>>
       \/ /\ audit' = AuditInsert(audit, AuditRow(req[r].user, "LOGIN_SUCCESS",
                                             "User logged in successfully"))
          /\ Respond(r, req[r], 200, "", req[r].token)
          /\ issued' = issued \cup {[token |-> req[r].token, by |-> "login"]}
          /\ UNCHANGED faults
    /\ UNCHANGED <<now, users, sessions, revoked, nreq, budget>>
    /\ UNCHANGED <<credVars, clientVars, cipherVars, infraVars>>

(***************************************************************************)
(* AuthMiddleware.authenticate, in front of every protected route          *)
(***************************************************************************)
ProtectedKinds == {"logout", "refresh", "profile"}

\* the Authorization headers a client can send: none, a value not signed by
\* the server, or a token the server handed out
HeaderInputs == {NoToken, ForgedToken} \cup {i.token : i \in issued}

\* request received; header check; jwt.verify(token, secret)
AuthStart(r, kind, header) ==
    /\ Free(r)
    /\ nreq' = nreq + 1
    /\ LET q == [IdleReq EXCEPT !.kind = kind, !.n = nreq + 1, !.bearer = header] IN
       IF header = NoToken
       THEN Respond(r, q, 401, "Access token required", NoToken)
       ELSE IF ~JwtVerify(header, now)
       THEN Respond(r, q, 401, "Invalid token", NoToken)
       ELSE /\ req' = [req EXCEPT ![r] = [q EXCEPT !.pc = "auth_session"]]
            /\ resp' = NoResp
    /\ UNCHANGED <<now, users, sessions, audit, issued, revoked, budget, faults>>
    /\ UNCHANGED <<credVars, clientVars, cipherVars, infraVars>>

\* SELECT * FROM sessions WHERE token = $1 AND expires_at > NOW()
AuthSession(r) ==
    /\ req[r].pc = "auth_session"
    /\ \/ /\ CanFail
          /\ faults' = faults + 1
          /\ Respond(r, req[r], 500, "Authentication failed", NoToken)
       \/ /\ SelectValidSessions(req[r].bearer) = {}
          /\ Respond(r, req[r], 401, "Invalid or expired session", NoToken)
          /\ UNCHANGED faults
       \/ /\ SelectValidSessions(req[r].bearer) # {}
          /\ req' = [req EXCEPT ![r].pc = "auth_user"]
          /\ resp' = NoResp /\ UNCHANGED faults
    /\ UNCHANGED <<now, users, sessions, audit, issued, revoked, nreq, budget>>
    /\ UNCHANGED <<credVars, clientVars, cipherVars, infraVars>>

\* the synchronous head of the route handler that next() enters, up to its
\* first database statement
EnterHandler(q) ==
    CASE q.kind = "logout"  -> [q EXCEPT !.pc = "logout_delete"]
      [] q.kind = "refresh" ->
            [q EXCEPT !.pc = "refresh_update",
                      !.token = JwtSign(q.user, now, RefreshSpanSeconds),
                      !.expiresAt = RefreshExpiresAt(now)]
      [] q.kind = "profile" -> q

\* SELECT * FROM users WHERE id = $1; req.user = user; next()
AuthUser(r) ==
    /\ req[r].pc = "auth_user"
    /\ \/ /\ CanFail
          /\ faults' = faults + 1
          /\ Respond(r, req[r], 500, "Authentication failed", NoToken)
       \/ /\ UsersById(req[r].bearer.uid) = {}
          /\ Respond(r, req[r], 401, "User not found", NoToken)
          /\ UNCHANGED faults
       \/ /\ UsersById(req[r].bearer.uid) # {}
          /\ LET q == [req[r] EXCEPT !.user = req[r].bearer.uid] IN
             IF q.kind = "profile"
             THEN Respond(r, q, 200, "", NoToken)       \* AuthController.getProfile
             ELSE /\ req' = [req EXCEPT ![r] = EnterHandler(q)]
                  /\ resp' = NoResp
          /\ UNCHANGED faults
    /\ UNCHANGED <<now, users, sessions, audit, issued, revoked, nreq, budget>>
    /\ UNCHANGED <<credVars, clientVars, cipherVars, infraVars>>

(***************************************************************************)
(* AuthController.logout                                                   *)
(***************************************************************************)
\* DELETE FROM sessions WHERE token = $1
LogoutDelete(r) ==
    /\ req[r].pc = "logout_delete"
    /\ \/ /\ CanFail
          /\ faults' = faults + 1
          /\ Respond(r, req[r], 500, "Logout failed", NoToken)
          /\ UNCHANGED <<sessions, revoked>>
       \/ /\ sessions' = {s \in sessions : s.token # req[r].bearer}
          /\ revoked' = IF TokenTaken(req[r].bearer)
                        THEN revoked \cup {[token |-> req[r].bearer, at |-> nreq]}
                        ELSE revoked
          /\ req' = [req EXCEPT ![r].pc = "logout_audit"]
          /\ resp' = NoResp /\ UNCHANGED faults
    /\ UNCHANGED <<now, users, audit, issued, nreq, budget>>
    /\ UNCHANGED <<credVars, clientVars, cipherVars, infraVars>>

\* INSERT INTO security_audit ... 'LOGOUT'; res.json
LogoutAudit(r) ==
    /\ req[r].pc = "logout_audit"
    /\ \/ /\ CanFail
          /\ faults' = faults + 1
          /\ Respond(r, req[r], 500, "Logout failed", NoToken)
          /\ UNCHANGED audit
       \/ /\ audit' = AuditInsert(audit, AuditRow(req[r].user, "LOGOUT", "User logged out"))
          /\ Respond(r, req[r], 200, "", NoToken)
          /\ UNCHANGED faults
    /\ UNCHANGED <<now, users, sessions, issued, revoked, nreq, budget>>
    /\ UNCHANGED <<credVars, clientVars, cipherVars, infraVars>>

(***************************************************************************)
(* AuthController.refreshToken                                             *)
(***************************************************************************)
\* UPDATE sessions SET token = $1, expires_at = $2 WHERE token = $3; res.json
RefreshUpdate(r) ==
    /\ req[r].pc = "refresh_update"
    /\ LET old == req[r].bearer
           new == req[r].token
           hit == {s \in sessions : s.token = old}
           clash == hit # {} /\ \E s \in sessions \ hit : s.token = new
       IN
       \/ /\ CanFail
          /\ faults' = faults + 1
          /\ Respond(r, req[r], 500, "Failed to refresh token", NoToken)
          /\ UNCHANGED <<sessions, issued>>
       \/ /\ clash                                   \* sessions.token is UNIQUE
          /\ Respond(r, req[r], 500, "Failed to refresh token", NoToken)
          /\ UNCHANGED <<sessions, issued, faults>>
       \/ /\ ~clash
          /\ sessions' = (sessions \ hit) \cup
                {[s EXCEPT !.token = new, !.expires_at = req[r].expiresAt] : s \in hit}
          /\ Respond(r, req[r], 200, "", new)
          /\ issued' = issued \cup {[token |-> new, by |-> "refresh"]}
          /\ UNCHANGED faults
    /\ UNCHANGED <<now, users, audit, revoked, nreq, budget>>
    /\ UNCHANGED <<credVars, clientVars, cipherVars, infraVars>>

(***************************************************************************)
(* AuthController.register                                                 *)
(***************************************************************************)
\* request received; validation; SELECT id FROM users WHERE email = $1
Register(r, email, password, confirmPassword) ==
    /\ Free(r)
    /\ nreq' = nreq + 1
    /\ LET q == [IdleReq EXCEPT !.kind = "register", !.n = nreq + 1] IN
       IF email = "" \/ password = "" \/ confirmPassword = ""
       THEN Respond(r, q, 400, "All fields are required", NoToken) /\ UNCHANGED faults
       ELSE IF password # confirmPassword
       THEN Respond(r, q, 400, "Passwords do not match", NoToken) /\ UNCHANGED faults
       ELSE IF Len(password) < 12
       THEN Respond(r, q, 400, "Password must be at least 12 characters long", NoToken)
            /\ UNCHANGED faults
       ELSE \/ /\ CanFail
               /\ faults' = faults + 1
               /\ Respond(r, q, 500, "Registration failed", NoToken)
            \/ /\ UsersByEmail(ToLower(email)) # {}
               /\ Respond(r, q, 409, "User with this email already exists", NoToken)
               /\ UNCHANGED faults
            \/ /\ UsersByEmail(ToLower(email)) = {}
               /\ req' = [req EXCEPT ![r] =
                     [q EXCEPT !.pc = "reg_insert", !.email = ToLower(email),
                               !.password = password]]
               /\ resp' = NoResp /\ UNCHANGED faults
    /\ UNCHANGED <<now, users, sessions, audit, issued, revoked, budget>>
    /\ UNCHANGED <<credVars, clientVars, cipherVars, infraVars>>

\* INSERT INTO users (email, password_hash, master_key_salt) ... RETURNING *
RegInsert(r) ==
    /\ req[r].pc = "reg_insert"
    /\ \/ /\ CanFail
          /\ faults' = faults + 1
          /\ Respond(r, req[r], 500, "Registration failed", NoToken)
          /\ UNCHANGED users
       \/ /\ UsersByEmail(req[r].email) # {}            \* users.email is UNIQUE
          /\ Respond(r, req[r], 500, "Registration failed", NoToken)
          /\ UNCHANGED <<users, faults>>
       \/ /\ UsersByEmail(req[r].email) = {}
          /\ users' = users \cup
                {UserRow(3 + req[r].n, req[r].email, req[r].password, FALSE, NoSecret)}
          /\ req' = [req EXCEPT ![r].pc = "reg_audit", ![r].user = 3 + req[r].n,
                                ![r].password = ""]
          /\ resp' = NoResp /\ UNCHANGED faults
    /\ UNCHANGED <<now, sessions, audit, issued, revoked, nreq, budget>>
    /\ UNCHANGED <<credVars, clientVars, cipherVars, infraVars>>

\* INSERT INTO security_audit ... 'USER_REGISTERED'; res.status(201)
RegAudit(r) ==
    /\ req[r].pc = "reg_audit"
    /\ \/ /\ CanFail
          /\ faults' = faults + 1
          /\ Respond(r, req[r], 500, "Registration failed", NoToken)
          /\ UNCHANGED audit
       \/ /\ audit' = AuditInsert(audit, AuditRow(req[r].user, "USER_REGISTERED",
                                             "New user account created"))
          /\ Respond(r, req[r], 201, "", NoToken)
          /\ UNCHANGED faults
    /\ UNCHANGED <<now, users, sessions, issued, revoked, nreq, budget>>
    /\ UNCHANGED <<credVars, clientVars, cipherVars, infraVars>>

Next ==
    \/ Tick
    \/ \E r \in Slots, e \in EmailInputs, p \in PasswordInputs,
          c \in CodeInputs, rm \in BOOLEAN : Login(r, e, p, c, rm)
    \/ \E r \in Slots : LoginAuditFail(r)
    \/ \E r \in Slots : LoginSession(r)
    \/ \E r \in Slots : LoginUpdate(r)
    \/ \E r \in Slots : LoginAudit(r)
    \/ \E r \in Slots, k \in ProtectedKinds, h \in HeaderInputs : AuthStart(r, k, h)
    \/ \E r \in Slots : AuthSession(r)
    \/ \E r \in Slots : AuthUser(r)
    \/ \E r \in Slots : LogoutDelete(r)
    \/ \E r \in Slots : LogoutAudit(r)
    \/ \E r \in Slots : RefreshUpdate(r)
    \/ \E r \in Slots, e \in RegisterEmails, p \in RegisterPasswords,
          cp \in RegisterPasswords : Register(r, e, p, cp)
    \/ \E r \in Slots : RegInsert(r)
    \/ \E r \in Slots : RegAudit(r)

Spec == Init /\ [][Next]_vars

(***************************************************************************)
(* The same server, started from the state it is in once alice has logged  *)
(* in at time 0 (the state Login .. LoginAudit of her request lead to),    *)
(* with MaxRequests further requests to come.                              *)
(***************************************************************************)
InitLoggedIn ==
    /\ EmptyVault /\ NothingSent /\ NothingSealed /\ NoLimiter
    /\ now = 0
    /\ users = {UserRow(1, "alice", "CorrectHorseBattery1!", FALSE, NoSecret),
                UserRow(2, "bob", "CorrectHorseBattery1!", TRUE, "K2"),
                UserRow(3, "dan", "CorrectHorseBattery1!", TRUE, NoSecret)}
    /\ sessions = {SessionRow(1, 1, JwtSign(1, 0, LoginSpanSeconds(FALSE)),
                              LoginExpiresAt(0, FALSE))}
    /\ audit = <<AuditRow(1, "LOGIN_SUCCESS", "User logged in successfully")>>
    /\ req = [r \in Slots |-> IdleReq]
    /\ resp = NoResp
    /\ issued = {[token |-> JwtSign(1, 0, LoginSpanSeconds(FALSE)), by |-> "login"]}
    /\ revoked = {}
    /\ nreq = 1
    /\ budget = MaxRequests + 1
    /\ faults = 0

SpecLoggedIn == InitLoggedIn /\ [][Next]_vars

\* what authenticate answers for a bearer token presented now, storage
\* permitting: its three checks in one
Validates(tok) ==
    /\ JwtVerify(tok, now)
    /\ SelectValidSessions(tok) # {}
    /\ UsersById(tok.uid) # {}

(***************************************************************************)
(* CredentialsController.  Its routes are mounted behind authenticate, so  *)
(* a handler runs with req.user set to a user whose token validates.  The  *)
(* requests of the model carry no folderId, and of the columns of a        *)
(* credential the model keeps id, user_id, title, password and favorite.   *)
(***************************************************************************)
MaxCredRequests == 3

CredUsers == {1, 2}
CredIds == {1, 2}
ListKinds == {"getAll", "search"}

CreateBodies ==
    {[NoBody EXCEPT !.password = Envelope(2)],
     [NoBody EXCEPT !.title = Text(2), !.password = Envelope(2)],
     [NoBody EXCEPT !.title = Text(2), !.password = Plain(2)]}

UpdateBodies ==
    {NoBody,
     [NoBody EXCEPT !.title = Text(3)],
     [NoBody EXCEPT !.password = Envelope(3)],
     [NoBody EXCEPT !.password = Envelope(4)],
     [NoBody EXCEPT !.password = Plain(3)],
     [NoBody EXCEPT !.user_id = Num(2)],
     [NoBody EXCEPT !.color = Text(1)]}

\* the text of a title
TitleText(t) ==
    CASE t.v = 1 -> "mail"
      [] t.v = 2 -> "bank"
      [] OTHER -> "wiki"

CredentialRow(id, uid, title, password, favorite) ==
    [id |-> id, user_id |-> uid, title |-> title, password |-> password,
     favorite |-> favorite]

\* the columns of credentials a body key can name
CredColumns == {"title", "password", "user_id"}

\* Object.entries(updateData) with value !== undefined
UpdateKeys(body) == {k \in DOMAIN body : body[k] # Absent}

\* the row after UPDATE credentials SET <key> = <value>, ... of the body
ApplyUpdate(row, body) ==
    [row EXCEPT
        !.title = IF body.title # Absent THEN body.title ELSE @,
        !.password = IF body.password # Absent THEN body.password ELSE @,
        !.user_id = IF body.user_id # Absent THEN body.user_id.v ELSE @]

\* ... WHERE id = $1 AND user_id = $2
OwnRows(cid, uid) == {c \in credentials : c.id = cid /\ c.user_id = uid}

\* gen_random_uuid(): an id no credential had before
FreshCredId ==
    1 + Cardinality({i \in DOMAIN trail : trail[i].ev = "effect" /\ trail[i].op = "create"})

\* the statement of request q that changed the credentials table, or its
\* audit row, reaching the database
TrailEntry(ev, op, q) ==
    [ev |-> ev, op |-> op, user |-> q.user, cid |-> q.cid, n |-> q.n]

\* authenticate has let a request of user u through
Authenticated(u) == \E s \in sessions : s.user_id = u /\ Validates(s.token)

\* a new credential request is taken by the first idle slot
CredFree(r, u) ==
    /\ creq[r].pc = "idle"
    /\ \A o \in Slots : o < r => creq[o].pc # "idle"
    /\ nreq < budget
    /\ Authenticated(u)

CredAnswer(q, status, error, data) ==
    [kind |-> q.kind, status |-> status, error |-> error, data |-> data,
     user |-> q.user, cid |-> q.cid, n |-> q.n]

CredRespond(r, q, status, error, data) ==
    /\ cresp' = CredAnswer(q, status, error, data)
    /\ creq' = [creq EXCEPT ![r] = IdleCred]

\* request received by handler `kind` with req.user = u
CredReq(kind, u, cid, body) ==
    [IdleCred EXCEPT !.kind = kind, !.n = nreq + 1, !.user = u, !.cid = cid,
                     !.body = body]

\* create: validation; INSERT INTO credentials ... RETURNING *
CredCreate(r, u, body) ==
    /\ CredFree(r, u)
    /\ nreq' = nreq + 1
    /\ LET q == CredReq("create", u, FreshCredId, body) IN
       IF body.title = Absent \/ body.password = Absent
       THEN /\ CredRespond(r, q, 400, "Title, username, and password are required", {})
            /\ UNCHANGED <<credentials, trail, faults>>
       ELSE \/ /\ CanFail
               /\ faults' = faults + 1
               /\ CredRespond(r, q, 500, "Failed to create credential", {})
               /\ UNCHANGED <<credentials, trail>>
            \/ /\ credentials' = credentials \cup
                     {CredentialRow(q.cid, u, body.title, body.password, FALSE)}
               /\ trail' = Append(trail, TrailEntry("effect", "create", q))
               /\ creq' = [creq EXCEPT ![r] =
                              [q EXCEPT !.pc = "create_audit", !.title = body.title]]
               /\ cresp' = NoCredResp
               /\ UNCHANGED faults
    /\ UNCHANGED <<authVars, audit, budget, history, clientVars, cipherVars, infraVars>>

\* create: INSERT INTO security_audit ... 'CREDENTIAL_CREATED'; res.status(201)
CredCreateAudit(r) ==
    /\ creq[r].pc = "create_audit"
    /\ \/ /\ CanFail
          /\ faults' = faults + 1
          /\ CredRespond(r, creq[r], 500, "Failed to create credential", {})
          /\ UNCHANGED <<audit, trail>>
       \/ /\ audit' = AuditInsert(audit, AuditRow(creq[r].user, "CREDENTIAL_CREATED",
                          "Created credential: " \o TitleText(creq[r].title)))
          /\ trail' = Append(trail, TrailEntry("audit", "create", creq[r]))
          /\ CredRespond(r, creq[r], 201, "",
                         {c \in credentials : c.id = creq[r].cid})
          /\ UNCHANGED faults
    /\ UNCHANGED <<authVars, nreq, budget, credentials, history, clientVars, cipherVars, infraVars>>

\* getById: SELECT c.* ... WHERE c.id = $1 AND c.user_id = $2; res.json
CredGetById(r, u, cid) ==
    /\ CredFree(r, u)
    /\ nreq' = nreq + 1
    /\ LET q == CredReq("getById", u, cid, NoBody) IN
       \/ /\ CanFail
          /\ faults' = faults + 1
          /\ CredRespond(r, q, 500, "Failed to get credential", {})
       \/ /\ OwnRows(cid, u) = {}
          /\ CredRespond(r, q, 404, "Credential not found", {})
          /\ UNCHANGED faults
       \/ /\ OwnRows(cid, u) # {}
          /\ CredRespond(r, q, 200, "", OwnRows(cid, u))
          /\ UNCHANGED faults
    /\ UNCHANGED <<authVars, audit, budget, credentials, history, trail,
                   clientVars, cipherVars, infraVars>>

\* getAll / search: SELECT c.* ... WHERE c.user_id = $1 ...; res.json
CredList(r, u, kind) ==
    /\ CredFree(r, u)
    /\ nreq' = nreq + 1
    /\ LET q == CredReq(kind, u, NoCredential, NoBody) IN
       \/ /\ CanFail
          /\ faults' = faults + 1
          /\ CredRespond(r, q, 500, IF kind = "search"
                                    THEN "Failed to search credentials"
                                    ELSE "Failed to get credentials", {})
       \/ /\ CredRespond(r, q, 200, "", {c \in credentials : c.user_id = u})
          /\ UNCHANGED faults
    /\ UNCHANGED <<authVars, audit, budget, credentials, history, trail,
                   clientVars, cipherVars, infraVars>>

\* toggleFavorite: UPDATE credentials SET favorite = NOT favorite ... RETURNING *
CredToggleFavorite(r, u, cid) ==
    /\ CredFree(r, u)
    /\ nreq' = nreq + 1
    /\ LET q == CredReq("toggleFavorite", u, cid, NoBody)
           hit == OwnRows(cid, u)
           new == {[c EXCEPT !.favorite = ~@] : c \in hit}
       IN
       \/ /\ CanFail
          /\ faults' = faults + 1
          /\ CredRespond(r, q, 500, "Failed to toggle favorite", {})
          /\ UNCHANGED <<credentials, trail>>
       \/ /\ hit = {}
          /\ CredRespond(r, q, 404, "Credential not found", {})
          /\ UNCHANGED <<credentials, trail, faults>>
       \/ /\ hit # {}
          /\ credentials' = (credentials \ hit) \cup new
          /\ trail' = Append(trail, TrailEntry("effect", "toggleFavorite", q))
          /\ CredRespond(r, q, 200, "", new)
          /\ UNCHANGED faults
    /\ UNCHANGED <<authVars, audit, budget, history, clientVars, cipherVars, infraVars>>

\* update: SELECT * FROM credentials WHERE id = $1 AND user_id = $2; the
\* SET list is built from the keys of the body
CredUpdate(r, u, cid, body) ==
    /\ CredFree(r, u)
    /\ nreq' = nreq + 1
    /\ LET q == CredReq("update", u, cid, body) IN
       \/ /\ CanFail
          /\ faults' = faults + 1
          /\ CredRespond(r, q, 500, "Failed to update credential", {})
       \/ /\ OwnRows(cid, u) = {}
          /\ CredRespond(r, q, 404, "Credential not found", {})
          /\ UNCHANGED faults
       \/ /\ OwnRows(cid, u) # {}
          /\ UpdateKeys(body) = {}
          /\ CredRespond(r, q, 400, "No fields to update", {})
          /\ UNCHANGED faults
       \/ /\ OwnRows(cid, u) # {}
          /\ UpdateKeys(body) # {}
          /\ creq' = [creq EXCEPT ![r] = [q EXCEPT !.pc = "update_write"]]
          /\ cresp' = NoCredResp
          /\ UNCHANGED faults
    /\ UNCHANGED <<authVars, audit, budget, credentials, history, trail,
                   clientVars, cipherVars, infraVars>>

\* update: UPDATE credentials SET ... WHERE id = $n AND user_id = $m
\* RETURNING *; updatedCredential.title is read for the audit row
CredUpdateWrite(r) ==
    /\ creq[r].pc = "update_write"
    /\ LET q == creq[r]
           hit == OwnRows(q.cid, q.user)
           new == {ApplyUpdate(c, q.body) : c \in hit}
       IN
       \/ /\ CanFail
          /\ faults' = faults + 1
          /\ CredRespond(r, q, 500, "Failed to update credential", {})
          /\ UNCHANGED <<credentials, trail>>
       \/ /\ ~(UpdateKeys(q.body) \subseteq CredColumns)     \* no such column
          /\ CredRespond(r, q, 500, "Failed to update credential", {})
          /\ UNCHANGED <<credentials, trail, faults>>
       \/ /\ UpdateKeys(q.body) \subseteq CredColumns
          /\ hit = {}                           \* result.rows[0] is undefined
          /\ CredRespond(r, q, 500, "Failed to update credential", {})
          /\ UNCHANGED <<credentials, trail, faults>>
       \/ /\ UpdateKeys(q.body) \subseteq CredColumns
          /\ hit # {}
          /\ credentials' = (credentials \ hit) \cup new
          /\ trail' = Append(trail, TrailEntry("effect", "update", q))
          /\ creq' = [creq EXCEPT ![r].pc = "update_audit",
                                  ![r].title = (CHOOSE c \in new : TRUE).title]
          /\ cresp' = NoCredResp
          /\ UNCHANGED faults
    /\ UNCHANGED <<authVars, audit, nreq, budget, history, clientVars, cipherVars, infraVars>>

\* update: INSERT INTO security_audit ... 'CREDENTIAL_UPDATED'; res.json
CredUpdateAudit(r) ==
    /\ creq[r].pc = "update_audit"
    /\ \/ /\ CanFail
          /\ faults' = faults + 1
          /\ CredRespond(r, creq[r], 500, "Failed to update credential", {})
          /\ UNCHANGED <<audit, trail>>
       \/ /\ audit' = AuditInsert(audit, AuditRow(creq[r].user, "CREDENTIAL_UPDATED",
                          "Updated credential: " \o TitleText(creq[r].title)))
          /\ trail' = Append(trail, TrailEntry("audit", "update", creq[r]))
          /\ CredRespond(r, creq[r], 200, "",
                         {c \in credentials : c.id = creq[r].cid})
          /\ UNCHANGED faults
    /\ UNCHANGED <<authVars, nreq, budget, credentials, history, clientVars, cipherVars, infraVars>>

\* delete: SELECT title FROM credentials WHERE id = $1 AND user_id = $2
CredDelete(r, u, cid) ==
    /\ CredFree(r, u)
    /\ nreq' = nreq + 1
    /\ LET q == CredReq("delete", u, cid, NoBody) IN
       \/ /\ CanFail
          /\ faults' = faults + 1
          /\ CredRespond(r, q, 500, "Failed to delete credential", {})
       \/ /\ OwnRows(cid, u) = {}
          /\ CredRespond(r, q, 404, "Credential not found", {})
          /\ UNCHANGED faults
       \/ /\ OwnRows(cid, u) # {}
          /\ creq' = [creq EXCEPT ![r] =
                 [q EXCEPT !.pc = "delete_write",
                           !.title = (CHOOSE c \in OwnRows(cid, u) : TRUE).title]]
          /\ cresp' = NoCredResp
          /\ UNCHANGED faults
    /\ UNCHANGED <<authVars, audit, budget, credentials, history, trail,
                   clientVars, cipherVars, infraVars>>

\* delete: DELETE FROM credentials WHERE id = $1 AND user_id = $2
CredDeleteWrite(r) ==
    /\ creq[r].pc = "delete_write"
    /\ LET q == creq[r]
           hit == OwnRows(q.cid, q.user)
       IN
       \/ /\ CanFail
          /\ faults' = faults + 1
          /\ CredRespond(r, q, 500, "Failed to delete credential", {})
          /\ UNCHANGED <<credentials, trail>>
       \/ /\ credentials' = credentials \ hit
          /\ trail' = IF hit = {} THEN trail
                      ELSE Append(trail, TrailEntry("effect", "delete", q))
          /\ creq' = [creq EXCEPT ![r].pc = "delete_audit"]
          /\ cresp' = NoCredResp
          /\ UNCHANGED faults
    /\ UNCHANGED <<authVars, audit, nreq, budget, history, clientVars, cipherVars, infraVars>>

\* delete: INSERT INTO security_audit ... 'CREDENTIAL_DELETED'; res.json
CredDeleteAudit(r) ==
    /\ creq[r].pc = "delete_audit"
    /\ \/ /\ CanFail
          /\ faults' = faults + 1
          /\ CredRespond(r, creq[r], 500, "Failed to delete credential", {})
          /\ UNCHANGED <<audit, trail>>
       \/ /\ audit' = AuditInsert(audit, AuditRow(creq[r].user, "CREDENTIAL_DELETED",
                          "Deleted credential: " \o TitleText(creq[r].title)))
          /\ trail' = Append(trail, TrailEntry("audit", "delete", creq[r]))
          /\ CredRespond(r, creq[r], 200, "", {})
          /\ UNCHANGED faults
    /\ UNCHANGED <<authVars, nreq, budget, credentials, history, clientVars, cipherVars, infraVars>>

NextCred ==
    \/ \E r \in Slots, u \in CredUsers, b \in CreateBodies : CredCreate(r, u, b)
    \/ \E r \in Slots : CredCreateAudit(r)
    \/ \E r \in Slots, u \in CredUsers, c \in CredIds : CredGetById(r, u, c)
    \/ \E r \in Slots, u \in CredUsers, k \in ListKinds : CredList(r, u, k)
    \/ \E r \in Slots, u \in CredUsers, c \in CredIds : CredToggleFavorite(r, u, c)
    \/ \E r \in Slots, u \in CredUsers, c \in CredIds, b \in UpdateBodies :
          CredUpdate(r, u, c, b)
    \/ \E r \in Slots : CredUpdateWrite(r)
    \/ \E r \in Slots : CredUpdateAudit(r)
    \/ \E r \in Slots, u \in CredUsers, c \in CredIds : CredDelete(r, u, c)
    \/ \E r \in Slots : CredDeleteWrite(r)
    \/ \E r \in Slots : CredDeleteAudit(r)

(***************************************************************************)
(* The server once alice and bob have logged in (with rememberMe, at time  *)
(* 0) and alice has created her first credential, with MaxCredRequests     *)
(* credential requests to come.                                            *)
(***************************************************************************)
InitCred ==
    /\ NothingSent /\ NothingSealed /\ NoLimiter
    /\ now = 0
    /\ users = {UserRow(1, "alice", "CorrectHorseBattery1!", FALSE, NoSecret),
                UserRow(2, "bob", "CorrectHorseBattery1!", TRUE, "K2"),
                UserRow(3, "dan", "CorrectHorseBattery1!", TRUE, NoSecret)}
    /\ sessions = {SessionRow(1, 1, JwtSign(1, 0, LoginSpanSeconds(TRUE)),
                              LoginExpiresAt(0, TRUE)),
                   SessionRow(2, 2, JwtSign(2, 0, LoginSpanSeconds(TRUE)),
                              LoginExpiresAt(0, TRUE))}
    /\ audit = <<AuditRow(1, "LOGIN_SUCCESS", "User logged in successfully"),
                 AuditRow(2, "LOGIN_SUCCESS", "User logged in successfully"),
                 AuditRow(1, "CREDENTIAL_CREATED", "Created credential: mail")>>
    /\ req = [r \in Slots |-> IdleReq]
    /\ resp = NoResp
    /\ issued = {[token |-> JwtSign(1, 0, LoginSpanSeconds(TRUE)), by |-> "login"],
                 [token |-> JwtSign(2, 0, LoginSpanSeconds(TRUE)), by |-> "login"]}
    /\ revoked = {}
    /\ nreq = 3
    /\ budget = 3 + MaxCredRequests
    /\ faults = 0
    /\ credentials = {CredentialRow(1, 1, Text(1), Envelope(1), FALSE)}
    /\ history = <<>>
    /\ creq = [r \in Slots |-> IdleCred]
    /\ cresp = NoCredResp
    /\ trail = <<[ev |-> "effect", op |-> "create", user |-> 1, cid |-> 1, n |-> 3],
                 [ev |-> "audit", op |-> "create", user |-> 1, cid |-> 1, n |-> 3]>>

SpecCred == InitCred /\ [][NextCred]_vars

(***************************************************************************)
(* The whole server: session and credential routes together, started from *)
(* the state of InitCred with MaxRequests requests to come.                *)
(***************************************************************************)
InitServer ==
    /\ NothingSent /\ NothingSealed /\ NoLimiter
    /\ now = 0
    /\ users = {UserRow(1, "alice", "CorrectHorseBattery1!", FALSE, NoSecret),
                UserRow(2, "bob", "CorrectHorseBattery1!", TRUE, "K2"),
                UserRow(3, "dan", "CorrectHorseBattery1!", TRUE, NoSecret)}
    /\ sessions = {SessionRow(1, 1, JwtSign(1, 0, LoginSpanSeconds(TRUE)),
                              LoginExpiresAt(0, TRUE)),
                   SessionRow(2, 2, JwtSign(2, 0, LoginSpanSeconds(TRUE)),
                              LoginExpiresAt(0, TRUE))}
    /\ audit = <<AuditRow(1, "LOGIN_SUCCESS", "User logged in successfully"),
                 AuditRow(2, "LOGIN_SUCCESS", "User logged in successfully"),
                 AuditRow(1, "CREDENTIAL_CREATED", "Created credential: mail")>>
    /\ req = [r \in Slots |-> IdleReq]
    /\ resp = NoResp
    /\ issued = {[token |-> JwtSign(1, 0, LoginSpanSeconds(TRUE)), by |-> "login"],
                 [token |-> JwtSign(2, 0, LoginSpanSeconds(TRUE)), by |-> "login"]}
    /\ revoked = {}
    /\ nreq = 3
    /\ budget = 3 + MaxRequests
    /\ faults = 0
    /\ credentials = {CredentialRow(1, 1, Text(1), Envelope(1), FALSE)}
    /\ history = <<>>
    /\ creq = [r \in Slots |-> IdleCred]
    /\ cresp = NoCredResp
    /\ trail = <<[ev |-> "effect", op |-> "create", user |-> 1, cid |-> 1, n |-> 3],
                 [ev |-> "audit", op |-> "create", user |-> 1, cid |-> 1, n |-> 3]>>

NextServer == Next \/ NextCred

SpecServer == InitServer /\ [][NextServer]_vars

(***************************************************************************)
(* The web client: the Login and Register pages and the auth store.  wire  *)
(* holds every request the client has posted, each with the value the user *)
(* typed into the page's master-password field.                            *)
(***************************************************************************)
MaxSends == 2

NoField == "undefined"
FormEmails == {"alice", "carol"}
\* values typed into a field labelled Master Password
MasterInputs == {"", "short", "my master secret"}
\* values typed into the Register page's account password field
AccountInputs == {"short", "Account9!", "CorrectHorseBattery1!"}
FormCodes == {NoField, "K2"}

\* api.post(path, body); `master` is what the master-password field held
Post(path, body, master) == [path |-> path, body |-> body, master |-> master]

LoginBody(e, p, c, rm) ==
    [email |-> e, password |-> p, confirmPassword |-> NoField,
     twoFactorCode |-> c, rememberMe |-> IF rm THEN "true" ELSE "false"]

RegisterBody(e, p, cp) ==
    [email |-> e, password |-> p, confirmPassword |-> cp,
     twoFactorCode |-> NoField, rememberMe |-> NoField]

CanSend == Len(wire) < MaxSends

\* Login.onSubmit after the form's validation: useAuthStore.login posts the
\* value of the field `password`, the page's Master Password input
ClientLogin(e, m, c, rm) ==
    /\ CanSend
    /\ Len(m) >= 12
    /\ wire' = Append(wire, Post("/auth/login", LoginBody(e, m, c, rm), m))
    /\ UNCHANGED <<authVars, audit, nreq, budget, faults, credVars, cipherVars, infraVars,
                   store, interceptor>>

\* Login.handlePasswordSubmit: both fields non-empty; login(email, password,
\* undefined, false)
ClientPasswordSubmit(e, m) ==
    /\ CanSend
    /\ m # ""
    /\ wire' = Append(wire, Post("/auth/login", LoginBody(e, m, NoField, FALSE), m))
    /\ UNCHANGED <<authVars, audit, nreq, budget, faults, credVars, cipherVars, infraVars,
                   store, interceptor>>

\* Register.onSubmit after the form's validation:
\* registerUser(data.email, data.password, data.masterPassword)
ClientRegister(e, p, cp, m, cm) ==
    /\ CanSend
    /\ Len(p) >= 8 /\ cp = p
    /\ Len(m) >= 12 /\ cm = m
    /\ wire' = Append(wire, Post("/auth/register", RegisterBody(e, p, m), m))
    /\ UNCHANGED <<authVars, audit, nreq, budget, faults, credVars, cipherVars, infraVars,
                   store, interceptor>>

NextClient ==
    \/ \E e \in FormEmails, m \in MasterInputs, c \in FormCodes, rm \in BOOLEAN :
           ClientLogin(e, m, c, rm)
    \/ \E e \in FormEmails, m \in MasterInputs : ClientPasswordSubmit(e, m)
    \/ \E e \in FormEmails, p, cp \in AccountInputs, m, cm \in MasterInputs :
           ClientRegister(e, p, cp, m, cm)

SpecClient == Init /\ [][NextClient]_vars

(***************************************************************************)
(* EncryptionService.encrypt / decrypt.  envelopes is the log of the calls *)
(* made: for an encrypt call the fields returned to the caller and the     *)
(* nonce under which the cipher ran, for a decrypt call the envelope it    *)
(* was handed and what it returned or threw.  crypto.createCipher(         *)
(* algorithm, password) takes no IV: it derives key and IV from the        *)
(* password with EVP_BytesToKey (MD5, one round, no salt).  createCipher   *)
(* and createDecipher were removed in Node 22 and the README asks for      *)
(* Node.js 18+, so a call either runs the cipher that way or throws a      *)
(* TypeError.                                                              *)
(***************************************************************************)
MaxCalls == 2

MasterKeys == {1, 2}
RandomDraws == {1, 2}

\* UTF-16 code units of a JavaScript string: a letter, a high and a low
\* surrogate, and U+FFFD
HighSurrogate == "D800"
LowSurrogate == "DC00"
Replacement == "FFFD"

Plaintexts ==
    {<<>>, <<"a">>, <<HighSurrogate, LowSurrogate>>, <<HighSurrogate>>,
     <<"a", LowSurrogate>>}

\* the string as bytes in encoding 'utf8': a surrogate pair is one scalar
\* value, a surrogate without its partner is written as U+FFFD.  The bytes
\* are kept as the code units they decode to.
Utf8Encode(s) ==
    [i \in DOMAIN s |->
        CASE s[i] = HighSurrogate ->
                 IF i < Len(s) /\ s[i + 1] = LowSurrogate THEN s[i] ELSE Replacement
          [] s[i] = LowSurrogate ->
                 IF i > 1 /\ s[i - 1] = HighSurrogate THEN s[i] ELSE Replacement
          [] OTHER -> s[i]]

\* randomBytes(IV_LENGTH)
RandomIv(n) == [from |-> "randomBytes", of |-> n]
\* the IV EVP_BytesToKey derives from the password handed to createCipher
DerivedIv(key) == [from |-> "EVP_BytesToKey", of |-> key]
NoIv == [from |-> "none", of |-> 0]

\* AES-GCM under (key, nonce): ciphertext and tag are functions of key,
\* nonce and the plaintext bytes
GcmSeal(key, nonce, bytes) == [key |-> key, nonce |-> nonce, bytes |-> bytes]
NoCiphertext == [key |-> 0, nonce |-> NoIv, bytes |-> <<>>]

\* a 16-byte tag as hex text; `len` is the number of bytes Buffer.from(hex)
\* yields, `intact` whether those bytes are the leading bytes of the tag
AUTH_TAG_LENGTH == 16
FullTag == [len |-> AUTH_TAG_LENGTH, intact |-> TRUE]
NoTag == [len |-> 0, intact |-> FALSE]

\* the tag lengths decipher.setAuthTag accepts for GCM when the decipher was
\* created without authTagLength
AcceptedTagLengths == {4, 8, 12, 13, 14, 15, 16}

\* the authTag field after one bit of its text was flipped: the hex digit
\* became another hex digit, or it became no hex digit and Buffer.from
\* stops in front of it
AlteredTags ==
    {[len |-> AUTH_TAG_LENGTH, intact |-> FALSE],
     [len |-> 12, intact |-> TRUE],
     [len |-> 3, intact |-> TRUE]}

NoError == ""
AuthError == "Unsupported state or unable to authenticate data"
TagLengthError == "Invalid authentication tag length"
NoCipherError == "crypto.createCipher is not a function"
NoDecipherError == "crypto.createDecipher is not a function"

Call(call, outcome, error, key, data, encrypted, iv, tag, nonce, of) ==
    [call |-> call, outcome |-> outcome, error |-> error, key |-> key,
     data |-> data, encrypted |-> encrypted, iv |-> iv, tag |-> tag,
     nonce |-> nonce, of |-> of]

CanCall == Len(envelopes) < MaxCalls

CipherFrame ==
    UNCHANGED <<authVars, audit, nreq, budget, faults, credVars, clientVars, derived,
               infraVars>>

\* encrypt on a runtime that has crypto.createCipher
Encrypt(key, data, n) ==
    /\ CanCall
    /\ LET nonce == DerivedIv(key) IN
       envelopes' = Append(envelopes,
           Call("encrypt", "sealed", NoError, key, data,
                GcmSeal(key, nonce, Utf8Encode(data)), RandomIv(n), FullTag,
                nonce, 0))
    /\ CipherFrame

\* encrypt on a runtime without crypto.createCipher: the promise rejects
EncryptThrows(key, data) ==
    /\ CanCall
    /\ envelopes' = Append(envelopes,
           Call("encrypt", "threw", NoCipherError, key, data, NoCiphertext,
                NoIv, NoTag, NoIv, 0))
    /\ CipherFrame

\* what decrypt does with ciphertext ct and tag `tag` under `key`:
\* setAuthTag throws on a length it does not accept; final() throws unless
\* the tag bytes it was given authenticate the ciphertext under the key and
\* the nonce derived from it; otherwise the bytes are returned as a string
DecryptResult(ct, tag, key) ==
    LET nonce == DerivedIv(key) IN
    IF tag.len \notin AcceptedTagLengths
    THEN [outcome |-> "threw", error |-> TagLengthError, data |-> <<>>]
    ELSE IF ct.key = key /\ ct.nonce = nonce /\ tag.intact
    THEN [outcome |-> "opened", error |-> NoError, data |-> ct.bytes]
    ELSE [outcome |-> "threw", error |-> AuthError, data |-> <<>>]

\* the ciphertext field with one bit flipped
AlteredCiphertext(ct) == [ct EXCEPT !.nonce = NoIv]

\* decrypt of envelope i under `key`, handed over with iv field RandomIv(n)
\* and, when `ctAltered`, an altered ciphertext, and with tag field `tag`:
\* createDecipher derives the nonce from the key again; encryptedData.iv is
\* parsed and not used
Decrypt(i, key, n, ctAltered, tag) ==
    /\ CanCall
    /\ envelopes[i].outcome = "sealed"
    /\ LET e == envelopes[i]
           ct == IF ctAltered THEN AlteredCiphertext(e.encrypted) ELSE e.encrypted
           res == DecryptResult(ct, tag, key)
       IN envelopes' = Append(envelopes,
              Call("decrypt", res.outcome, res.error, key, res.data, ct,
                   RandomIv(n), tag, DerivedIv(key), i))
    /\ CipherFrame

\* decrypt on a runtime without crypto.createDecipher
DecryptThrows(i, key) ==
    /\ CanCall
    /\ envelopes[i].outcome = "sealed"
    /\ envelopes' = Append(envelopes,
           Call("decrypt", "threw", NoDecipherError, key, <<>>,
                envelopes[i].encrypted, envelopes[i].iv, envelopes[i].tag,
                NoIv, i))
    /\ CipherFrame

NextCipher ==
    \/ \E k \in MasterKeys, d \in Plaintexts, n \in RandomDraws : Encrypt(k, d, n)
    \/ \E k \in MasterKeys, d \in Plaintexts : EncryptThrows(k, d)
    \/ \E i \in DOMAIN envelopes, k \in MasterKeys, n \in RandomDraws,
          a \in BOOLEAN, t \in {FullTag} \cup AlteredTags : Decrypt(i, k, n, a, t)
    \/ \E i \in DOMAIN envelopes, k \in MasterKeys : DecryptThrows(i, k)

SpecCipher == Init /\ [][NextCipher]_vars

(***************************************************************************)
(* EncryptionService.deriveMasterKey.  derived is the log of the calls     *)
(* made.  A salt argument is text, kept as the sequence of its two-        *)
(* character groups; Buffer.from(text, 'hex') decodes groups up to the     *)
(* first one that is no pair of hex digits, toString('hex') writes lower-  *)
(* case digits.                                                            *)
(***************************************************************************)
MaxDerives == 2

SALT_BYTES == 32
SecretCap == 1024

\* [i \in 1..n |-> g]: the text of n groups g
Groups(g, n) == [i \in 1..n |-> g]

\* the salt argument left out
Omitted == <<"undefined">>

SaltArgs ==
    {Omitted, <<>>, Groups("ab", SALT_BYTES), Groups("AB", SALT_BYTES),
     Groups("ab", 16), <<"ab", "zz", "ab">>}

\* secrets by their length in bytes: empty, ordinary, one byte over the cap
Secrets == {[id |-> 1, bytes |-> 0], [id |-> 2, bytes |-> 12],
            [id |-> 3, bytes |-> SecretCap + 1]}

HexPair(g) == g \in {"ab", "AB", "r1", "r2"}
LowerHex(g) == IF g = "AB" THEN "ab" ELSE g

\* Buffer.from(text, 'hex'), the bytes written as lower-case pairs
RECURSIVE HexDecode(_)
HexDecode(text) ==
    IF text = <<>> \/ ~HexPair(Head(text)) THEN <<>>
    ELSE <<LowerHex(Head(text))>> \o HexDecode(Tail(text))

\* randomBytes(32)
RandomSalt(n) == Groups(IF n = 1 THEN "r1" ELSE "r2", SALT_BYTES)

\* `salt ? ... : ...`: undefined and the empty string are falsy
Falsy(salt) == salt = Omitted \/ salt = <<>>

\* PBKDF2-HMAC-SHA512: a function of secret and salt bytes
Pbkdf2(secret, saltBytes) == [secret |-> secret.id, salt |-> saltBytes]

CanDerive == Len(derived) < MaxDerives

\* deriveMasterKey(password, salt): no check of either argument; the
\* returned salt is saltBuffer.toString('hex')
DeriveMasterKey(secret, salt, n) ==
    /\ CanDerive
    /\ LET saltBuffer == IF Falsy(salt) THEN RandomSalt(n) ELSE HexDecode(salt) IN
       derived' = Append(derived,
           [secret |-> secret, arg |-> salt, outcome |-> "returned",
            key |-> Pbkdf2(secret, saltBuffer), salt |-> saltBuffer,
            drawn |-> Falsy(salt)])
    /\ UNCHANGED <<authVars, audit, nreq, budget, faults, credVars, clientVars,
                   envelopes, infraVars>>

NextDerive ==
    \E p \in Secrets, s \in SaltArgs, n \in RandomDraws : DeriveMasterKey(p, s, n)

SpecDerive == Init /\ [][NextDerive]_vars

(***************************************************************************)
(* AuthMiddleware.createRateLimiter.  limiter holds the arguments of the   *)
(* call, the clock, the Map `requests` of the closure, the answer to the   *)
(* latest request, the number of requests seen, and per address the        *)
(* number of requests let through since its entry was last written anew.   *)
(***************************************************************************)
MaxClock == 4
MaxLimit == 2
MaxHits == 4

Ips == {1, 2}
WindowLengths == {1, 2}

\* requests.get(ip) === undefined
NoEntry == [count |-> 0, resetTime |-> 0 - 1]

LimiterFrame ==
    UNCHANGED <<authVars, audit, nreq, budget, faults, credVars, clientVars,
                cipherVars, pool>>

\* const requests = new Map(); return (req, res, next) => ...
CreateRateLimiter(maxRequests, windowMs) ==
    /\ ~limiter.made
    /\ limiter' = [Unlimited EXCEPT !.made = TRUE, !.maxRequests = maxRequests,
                                    !.windowMs = windowMs,
                                    !.requests = [ip \in Ips |-> NoEntry],
                                    !.admitted = [ip \in Ips |-> 0]]
    /\ LimiterFrame

\* Date.now() moves on
LimiterTick ==
    /\ limiter.made
    /\ limiter.now < MaxClock
    /\ limiter' = [limiter EXCEPT !.now = @ + 1]
    /\ LimiterFrame

\* the middleware on a request from ip; 200 stands for next()
RateLimit(ip) ==
    /\ limiter.made
    /\ limiter.n < MaxHits
    /\ LET userRequests == limiter.requests[ip]
           seen == [limiter EXCEPT !.n = @ + 1, !.ip = ip]
       IN
       IF userRequests = NoEntry \/ limiter.now > userRequests.resetTime
       THEN limiter' = [seen EXCEPT
                !.requests[ip] = [count |-> 1,
                                  resetTime |-> limiter.now + limiter.windowMs],
                !.admitted[ip] = 1, !.status = 200]
       ELSE IF userRequests.count >= limiter.maxRequests
       THEN limiter' = [seen EXCEPT !.status = 429]
       ELSE limiter' = [seen EXCEPT !.requests[ip].count = @ + 1,
                                    !.admitted[ip] = @ + 1, !.status = 200]
    /\ LimiterFrame

NextLimiter ==
    \/ \E m \in 0..MaxLimit, w \in WindowLengths : CreateRateLimiter(m, w)
    \/ LimiterTick
    \/ \E ip \in Ips : RateLimit(ip)

SpecLimiter == Init /\ [][NextLimiter]_vars

(***************************************************************************)
(* The response interceptor of the client's axios instance.  Every request *)
(* made through `api`, the refresh request the interceptor itself posts    *)
(* included, runs through the interceptor.  stack holds the requests under *)
(* way, the newest last: one in flight on top, below it the interceptor    *)
(* invocations that await it.  result is a response or error on its way    *)
(* to the awaiting invocation.                                             *)
(***************************************************************************)
MaxDepth == 4
MaxApiCalls == 2

Statuses == {200, 401, 500}

Frame(request, retry, state) == [req |-> request, retry |-> retry, state |-> state]

Top == interceptor.stack[Len(interceptor.stack)]
Pop == SubSeq(interceptor.stack, 1, Len(interceptor.stack) - 1)
ReplaceTop(f) == [interceptor.stack EXCEPT ![Len(interceptor.stack)] = f]

InterceptorFrame ==
    UNCHANGED <<authVars, audit, nreq, budget, faults, credVars, cipherVars, infraVars,
                wire, store>>

\* some page calls api.get / api.post; `stored` tells whether localStorage
\* holds a token
ApiCall(stored) ==
    /\ interceptor.stack = <<>> /\ interceptor.result = "none"
    /\ interceptor.calls < MaxApiCalls
    /\ interceptor' = [Quiet EXCEPT !.stack = <<Frame("orig", FALSE, "inflight")>>,
                                    !.stored = stored,
                                    !.calls = interceptor.calls + 1]
    /\ InterceptorFrame

\* the server answers the request in flight
ServerAnswer(status) ==
    /\ interceptor.stack # <<>> /\ interceptor.result = "none"
    /\ Top.state = "inflight"
    /\ IF status = 200
       THEN interceptor' = [interceptor EXCEPT !.stack = Pop, !.result = "ok"]
       ELSE IF status = 401 /\ ~Top.retry /\ interceptor.stored
       THEN \* originalRequest._retry = true; await api.post('/auth/refresh')
            /\ Len(interceptor.stack) < MaxDepth
            /\ interceptor' =
                 [interceptor EXCEPT
                    !.stack = Append(ReplaceTop(Frame(Top.req, TRUE, "awaitRefresh")),
                                     Frame("refresh", FALSE, "inflight")),
                    !.refreshes = @ + 1,
                    !.saw401 = @ \/ Top.req = "orig"]
       ELSE \* toast; return Promise.reject(error)
            interceptor' = [interceptor EXCEPT
                               !.stack = Pop, !.result = "err",
                               !.saw401 = @ \/ (status = 401 /\ Top.req = "orig"
                                                /\ ~Top.retry)]
    /\ InterceptorFrame

\* the awaiting invocation goes on with the response or the error
Settle ==
    /\ interceptor.result # "none"
    /\ IF interceptor.stack = <<>>
       THEN interceptor' = [interceptor EXCEPT
                !.settled = IF interceptor.result = "ok" THEN "resolved" ELSE "rejected",
                !.result = "none"]
       ELSE IF Top.state = "awaitRefresh" /\ interceptor.result = "ok"
       THEN \* token written to localStorage; return api(originalRequest)
            interceptor' = [interceptor EXCEPT
                !.stack = Append(ReplaceTop(Frame(Top.req, TRUE, "awaitRetry")),
                                 Frame(Top.req, TRUE, "inflight")),
                !.result = "none",
                !.retries = IF Top.req = "orig" THEN @ + 1 ELSE @,
                !.refreshes = IF Top.req = "refresh" THEN @ + 1 ELSE @]
       ELSE IF Top.state = "awaitRefresh"
       THEN \* catch: localStorage.removeItem; window.location.href = '/login'
            interceptor' = [interceptor EXCEPT !.stack = Pop, !.stored = FALSE,
                                               !.redirected = TRUE]
       ELSE \* the retried request's outcome is the invocation's outcome
            interceptor' = [interceptor EXCEPT !.stack = Pop]
    /\ InterceptorFrame

NextInterceptor ==
    \/ \E t \in BOOLEAN : ApiCall(t)
    \/ \E st \in Statuses : ServerAnswer(st)
    \/ Settle

SpecInterceptor == Init /\ [][NextInterceptor]_vars

(***************************************************************************)
(* The client auth store (useAuthStore).  Each action runs to its end      *)
(* before the next one starts; the server's answer is an input.  0 stands  *)
(* for null, header is the token in api.defaults.headers.common            *)
(* Authorization (0 when the header is not set), pending the action that   *)
(* awaits its answer, last the action that ended last.                     *)
(***************************************************************************)
MaxStoreOps == 4

StoreUsers == {1, 2}
StoreTokens == {1, 2}
LoginErrors == {"Invalid credentials", "Login failed"}

StoreFrame ==
    UNCHANGED <<authVars, audit, nreq, budget, faults, credVars, cipherVars, infraVars,
                wire, interceptor>>

CanAct == store.ops < MaxStoreOps /\ store.pending = "none"

\* login: set({isLoading: true, error: null}); await api.post('/auth/login')
StoreLoginBegin ==
    /\ CanAct
    /\ store' = [store EXCEPT !.isLoading = TRUE, !.error = "", !.pending = "login",
                              !.ops = @ + 1]
    /\ StoreFrame

\* login, the request answered 200 with {token, user}
StoreLoginOk(user, token) ==
    /\ store.pending = "login"
    /\ store' = [store EXCEPT !.user = user, !.token = token, !.header = token,
                              !.isAuthenticated = TRUE, !.isLoading = FALSE,
                              !.error = "", !.pending = "none", !.last = "login"]
    /\ StoreFrame

\* login, the request failed: set({isLoading: false, error, isAuthenticated: false})
StoreLoginFailed(message) ==
    /\ store.pending = "login"
    /\ store' = [store EXCEPT !.isLoading = FALSE, !.error = message,
                              !.isAuthenticated = FALSE, !.pending = "none",
                              !.last = "login"]
    /\ StoreFrame

\* logout: whatever the server answers, the finally block clears header and state
StoreLogout ==
    /\ CanAct
    /\ store' = [store EXCEPT !.user = 0, !.token = 0, !.header = 0,
                              !.isAuthenticated = FALSE, !.error = "", !.ops = @ + 1,
                              !.last = "logout"]
    /\ StoreFrame

\* refreshToken, the request answered 200 with a token: the server accepts a
\* refresh only from a client that sent a token
StoreRefreshOk(token) ==
    /\ CanAct
    /\ store.token # 0 \/ store.header # 0
    /\ store' = [store EXCEPT !.token = token, !.header = token, !.ops = @ + 1,
                              !.last = "refreshToken"]
    /\ StoreFrame

\* refreshToken, the request failed: await get().logout()
StoreRefreshFailed ==
    /\ CanAct
    /\ store' = [store EXCEPT !.user = 0, !.token = 0, !.header = 0,
                              !.isAuthenticated = FALSE, !.error = "", !.ops = @ + 1,
                              !.last = "refreshToken"]
    /\ StoreFrame

NextStore ==
    \/ StoreLoginBegin
    \/ \E u \in StoreUsers, t \in StoreTokens : StoreLoginOk(u, t)
    \/ \E m \in LoginErrors : StoreLoginFailed(m)
    \/ StoreLogout
    \/ \E t \in StoreTokens : StoreRefreshOk(t)
    \/ StoreRefreshFailed

SpecStore == Init /\ [][NextStore]_vars

(***************************************************************************)
(* DatabaseConnection.query and DatabaseConnection.transaction.  pool      *)
(* follows one call at a time: the statements sent on the client, how      *)
(* often the client was acquired and released, how the callback ended,     *)
(* and what the call threw (the name of the step whose error it is).       *)
(***************************************************************************)
MaxRuns == 4

PoolFrame ==
    UNCHANGED <<authVars, audit, nreq, budget, faults, credVars, clientVars,
                cipherVars, limiter>>

\* const client = await this.getClient(), of query or of transaction
Acquire(kind, ok) ==
    /\ pool.pc \in {"idle", "done"}
    /\ pool.runs < MaxRuns
    /\ pool' = IF ok
               THEN [IdlePool EXCEPT !.kind = kind, !.acquired = 1,
                                     !.pc = IF kind = "query" THEN "run" ELSE "begin",
                                     !.runs = pool.runs + 1]
               ELSE [IdlePool EXCEPT !.kind = kind, !.thrown = "connect", !.pc = "done",
                                     !.runs = pool.runs + 1]
    /\ PoolFrame

\* query: await client.query(text, params) inside try
QueryRun(ok) ==
    /\ pool.pc = "run"
    /\ pool' = [pool EXCEPT !.statements = Append(@, "text"),
                            !.thrown = IF ok THEN "none" ELSE "text",
                            !.pc = "finally"]
    /\ PoolFrame

\* transaction: await client.query('BEGIN')
TxBegin(ok) ==
    /\ pool.pc = "begin"
    /\ pool' = [pool EXCEPT !.statements = Append(@, "BEGIN"),
                            !.thrown = IF ok THEN "none" ELSE "BEGIN",
                            !.pc = IF ok THEN "callback" ELSE "catch"]
    /\ PoolFrame

\* transaction: await callback(client)
TxCallback(ok) ==
    /\ pool.pc = "callback"
    /\ pool' = [pool EXCEPT !.callback = IF ok THEN "ok" ELSE "threw",
                            !.thrown = IF ok THEN "none" ELSE "callback",
                            !.pc = IF ok THEN "commit" ELSE "catch"]
    /\ PoolFrame

\* transaction: await client.query('COMMIT'); return result
TxCommit(ok) ==
    /\ pool.pc = "commit"
    /\ pool' = [pool EXCEPT !.statements = Append(@, "COMMIT"),
                            !.thrown = IF ok THEN "none" ELSE "COMMIT",
                            !.pc = IF ok THEN "finally" ELSE "catch"]
    /\ PoolFrame

\* transaction: catch (error) { await client.query('ROLLBACK'); throw error }
\* an error of the ROLLBACK itself leaves the catch block in place of `error`
TxRollback(ok) ==
    /\ pool.pc = "catch"
    /\ pool' = [pool EXCEPT !.statements = Append(@, "ROLLBACK"),
                            !.thrown = IF ok THEN @ ELSE "ROLLBACK",
                            !.pc = "finally"]
    /\ PoolFrame

\* finally { client.release() }
Release ==
    /\ pool.pc = "finally"
    /\ pool' = [pool EXCEPT !.released = @ + 1, !.pc = "done"]
    /\ PoolFrame

NextPool ==
    \/ \E k \in {"query", "transaction"}, ok \in BOOLEAN : Acquire(k, ok)
    \/ \E ok \in BOOLEAN : QueryRun(ok)
    \/ \E ok \in BOOLEAN : TxBegin(ok)
    \/ \E ok \in BOOLEAN : TxCallback(ok)
    \/ \E ok \in BOOLEAN : TxCommit(ok)
    \/ \E ok \in BOOLEAN : TxRollback(ok)
    \/ Release

SpecPool == Init /\ [][NextPool]_vars

(***************************************************************************)
(* Properties                                                              *)
(***************************************************************************)
AuthPcs == {"auth_session", "auth_user"}
HandlerPcs == {"logout_delete", "logout_audit", "refresh_update"}
LoginRejections == {"nouser", "badpw", "nootp", "badotp"}

\* C1: authenticate calls next() and sets req.user only when the bearer
\* token's JWT verified, a sessions row with exactly that token and
\* expires_at > now was found and the user row was found; every other
\* request to a protected route is answered 401 or 500 with req.user unset.
C1_AuthenticateGate ==
    [][ /\ \A r \in Slots :
            /\ (req[r].pc = "idle" /\ req'[r].pc = "auth_session") =>
                   /\ req'[r].bearer.sig = "ok"
                   /\ (now \div TicksPerSecond) < req'[r].bearer.exp
            /\ (req[r].pc = "auth_session" /\ req'[r].pc = "auth_user") =>
                   \E s \in sessions : s.token = req[r].bearer /\ s.expires_at > now
            /\ (req[r].pc = "auth_user" /\ req'[r].pc \in HandlerPcs) =>
                   \E u \in users : u.id = req[r].bearer.uid /\ req'[r].user = u.id
            /\ req'[r].pc = "auth_user" => req[r].pc \in AuthPcs
            /\ req'[r].pc \in HandlerPcs => req[r].pc \in HandlerPcs \cup {"auth_user"}
            /\ req'[r].pc \in AuthPcs => req'[r].user = NoUser
        /\ resp'.kind \in ProtectedKinds =>
            /\ resp'.stage \in {"idle", "auth_session"} =>
                   resp'.status \in {401, 500} /\ resp'.user = NoUser
            /\ resp'.stage = "auth_user" =>
                   IF resp'.status = 200
                   THEN \E u \in users : u.id = resp'.bearer.uid /\ resp'.user = u.id
                   ELSE resp'.status \in {401, 500} /\ resp'.user = NoUser
            /\ resp'.user # NoUser => resp'.stage \in HandlerPcs \cup {"auth_user"}
      ]_vars

\* a request passed authenticate and entered its handler with req.user set
C1_Witness ==
    \E r \in Slots : req[r].pc = "logout_delete" /\ req[r].user = req[r].bearer.uid
                        /\ req[r].user # NoUser

\* C2: after refreshToken succeeds, the old token fails validation and the
\* token returned in the response validates.
C2_RefreshRotatesToken ==
    (resp.kind = "refresh" /\ resp.status = 200) =>
        (~Validates(resp.bearer) /\ Validates(resp.data))

\* C3: a token issued by a successful login validates at every time before
\* its session's expires_at and is invalid at every time after it.
C3_ValidUntilExpiresAt ==
    \A s \in sessions :
        (\E i \in issued : i.by = "login" /\ i.token = s.token) =>
            /\ now < s.expires_at => Validates(s.token)
            /\ now > s.expires_at => ~Validates(s.token)

\* C4: a token whose session was revoked by logout or has expired never
\* validates again.
C4_DeadTokenStaysDead ==
    \A t \in {v.token : v \in revoked}
                \cup {s.token : s \in {x \in sessions : x.expires_at <= now}} :
        ~Validates(t)

\* C5: a logout request that arrives carrying a token, of unexpired
\* signature, whose session is already revoked is answered with the success
\* outcome (storage failures aside) and leaves the sessions table unchanged.
C5_LogoutIdempotent ==
    [][ (/\ resp'.kind = "logout"
         /\ resp'.status # 500
         /\ JwtVerify(resp'.bearer, now)
         /\ \E v \in revoked : v.token = resp'.bearer /\ v.at < resp'.n) =>
            (resp'.status = 200 /\ sessions' = sessions) ]_vars

\* the code the request carried verifies against the secret of the account,
\* when the account has the second factor enabled
TwoFactorPassed(rows, uid, code) ==
    \A u \in rows : (u.id = uid /\ u.twoFactorEnabled) =>
        (code # NoCode /\ code = u.twoFactorSecret)

\* C6: for an account with two-factor enabled, login creates no sessions row
\* and returns no token unless the request carries a code that verifies
\* against the user's secret.
C6_TwoFactorMandatory ==
    [][ /\ \A r \in Slots :
            req'[r].pc \in {"login_session", "login_update", "login_audit"} =>
                TwoFactorPassed(users', req'[r].user, req'[r].code)
        /\ \A s \in sessions' :
            (\A o \in sessions : o.id # s.id) =>
                \E r \in Slots : /\ req[r].pc = "login_session"
                                 /\ req[r].user = s.user_id
                                 /\ TwoFactorPassed(users, req[r].user, req[r].code)
        /\ (resp'.kind = "login" /\ resp'.data # NoToken) =>
                TwoFactorPassed(users', resp'.user, resp'.code)
      ]_vars

\* a login to the two-factor account with a wrong code was rejected and the
\* account has no session
C6_Witness ==
    /\ resp.kind = "login" /\ resp.check = "badotp" /\ resp.status = 401
    /\ \E u \in users : u.id = resp.user /\ u.twoFactorEnabled
    /\ \A s \in sessions : s.user_id # resp.user

\* C7: every rejected login gets the same status and error body, the one an
\* unknown email gets, whichever check failed.
C7_UniformLoginFailure ==
    (resp.kind = "login" /\ resp.check \in LoginRejections /\ resp.status # 500) =>
        /\ resp.status = LoginFailStatus("nouser")
        /\ resp.error = LoginFailError("nouser")

\* C8: every rejected login against an existing account appends exactly one
\* LOGIN_FAILED audit event of that user before the response is sent.
C8_RejectedLoginAudited ==
    [][ (/\ resp'.kind = "login"
         /\ resp'.check \in {"badpw", "nootp", "badotp"}
         /\ resp'.status # 500) =>
            /\ Len(audit') = Len(audit) + 1
            /\ SubSeq(audit', 1, Len(audit)) = audit
            /\ audit'[Len(audit')].action = "LOGIN_FAILED"
            /\ audit'[Len(audit')].user_id = resp'.user ]_vars

\* C9: login with the correct password succeeds and returns a token backed by
\* a session; login with a wrong password returns the authentication
\* failure, creates no sessions row and records LOGIN_FAILED.
C9_LoginScenario ==
    (resp.kind = "login" /\ faults = 0) =>
        /\ resp.check = "ok" =>
            /\ resp.status = 200
            /\ resp.data # NoToken
            /\ \E s \in sessions : s.id = resp.n /\ s.token = resp.data
        /\ resp.check = "badpw" =>
            /\ resp.status = 401 /\ resp.error = "Invalid credentials"
            /\ \A s \in sessions : s.id # resp.n
            /\ Len(audit) > 0
            /\ audit[Len(audit)] = AuditRow(resp.user, "LOGIN_FAILED", "Invalid password")

\* C10: once the triggering effect is applied, a failing INSERT into
\* security_audit does not fail the operation: the request is still answered
\* as successful.
C10_AuditNeverFailsOperation ==
    [][ \A r \in Slots :
            (req[r].pc \in {"login_audit", "logout_audit", "reg_audit"}
                /\ req'[r].pc = "idle") => resp'.status \in {200, 201} ]_vars

\* the positions of the trail at which request n changed the credentials table
EffectsOf(n) == {i \in DOMAIN trail : trail[i].ev = "effect" /\ trail[i].n = n}

\* C11: for a single user, the audit rows of the updates and deletes of one
\* credential appear in the order in which the requests' changes to the credentials
\* table took effect.
C11_AuditOrderFollowsEffects ==
    \A i, j \in DOMAIN trail :
        (/\ i < j
         /\ trail[i].ev = "audit" /\ trail[j].ev = "audit"
         /\ trail[i].op \in {"update", "delete"} /\ trail[j].op \in {"update", "delete"}
         /\ trail[i].user = trail[j].user
         /\ trail[i].cid = trail[j].cid) =>
            \A a \in EffectsOf(trail[i].n), b \in EffectsOf(trail[j].n) : a < b

\* request n is still being handled
CredInFlight(n) == \E r \in Slots : creq[r].pc # "idle" /\ creq[r].n = n

\* C12: a credential removed from the store by a request that is no longer
\* in flight has a CREDENTIAL_DELETED audit row written by that request for
\* its owner, storage failures included.
C12_DeletionAudited ==
    \A i \in DOMAIN trail :
        (/\ trail[i].ev = "effect" /\ trail[i].op = "delete"
         /\ ~CredInFlight(trail[i].n)) =>
            /\ \E j \in DOMAIN trail :
                  /\ trail[j].ev = "audit" /\ trail[j].op = "delete"
                  /\ trail[j].n = trail[i].n
            /\ \E k \in DOMAIN audit :
                  /\ audit[k].user_id = trail[i].user
                  /\ audit[k].action = "CREDENTIAL_DELETED"

CredKinds == {"create", "getById", "getAll", "search", "update", "toggleFavorite", "delete"}

\* C13: every successful credential read or write appends an audit row of
\* the acting user before it answers.
C13_AccessAudited ==
    [][ (cresp'.kind \in CredKinds /\ cresp'.status \in {200, 201}) =>
            /\ Len(audit') = Len(audit) + 1
            /\ audit'[Len(audit')].user_id = cresp'.user ]_vars

\* C14: the audit log is append-only: every step leaves the existing
\* security_audit rows as they are, so the log is an extension of the log of
\* every earlier state.
C14_AuditAppendOnly ==
    [][ /\ Len(audit') >= Len(audit)
        /\ SubSeq(audit', 1, Len(audit)) = audit ]_vars

\* the log has grown by a row of a session route and a row of a credential
\* route
C14_Witness ==
    /\ Len(audit) = 5
    /\ \E i \in 4..5 : audit[i].action \in {"LOGIN_SUCCESS", "LOGIN_FAILED", "LOGOUT",
                                             "USER_REGISTERED"}
    /\ \E i \in 4..5 : audit[i].action \in {"CREDENTIAL_CREATED", "CREDENTIAL_UPDATED",
                                             "CREDENTIAL_DELETED"}


\* C15: an update that overwrites the stored password of a credential first
\* appends the value being replaced to password_history: the step that
\* changes a credential's password adds one history row holding the
\* credential's id and its prior password.
C15_HistoryBeforeOverwrite ==
    [][ \A c \in credentials, d \in credentials' :
            (c.id = d.id /\ c.password # d.password) =>
                /\ Len(history') = Len(history) + 1
                /\ history'[Len(history')] =
                       [credential_id |-> c.id, password |-> c.password] ]_vars


\* C16: ownership of a credential is fixed and exclusive: no step changes
\* the user_id of a stored credential, whatever the request body holds, and
\* every credential row sent in an answer belongs to the requesting user.
C16_OwnershipFixed ==
    [][ /\ \A c \in credentials, d \in credentials' :
               c.id = d.id => d.user_id = c.user_id
        /\ \A c \in cresp'.data : c.user_id = cresp'.user ]_vars


\* C17: in every reachable state the stored password of every credential is
\* an encryption envelope, never plaintext.
C17_StoredPasswordsAreEnvelopes ==
    \A c \in credentials : c.password.kind = "envelope"


\* C18: the master password never leaves the client: no request posted
\* during login or registration carries, in any field of its body, the value
\* the user entered in the master-password field.
C18_MasterPasswordStaysLocal ==
    \A i \in DOMAIN wire :
        \A f \in DOMAIN wire[i].body : wire[i].body[f] # wire[i].master


Sealed == {i \in DOMAIN envelopes : envelopes[i].outcome = "sealed"}

\* C20: a nonce is never reused under the same key: two encrypt calls with
\* the same master key run the cipher under different nonces, and the iv
\* stored in an envelope is the nonce its ciphertext was produced under.
C20_NonceNeverReused ==
    /\ \A i, j \in Sealed :
           (i # j /\ envelopes[i].key = envelopes[j].key) =>
               envelopes[i].nonce # envelopes[j].nonce
    /\ \A i \in Sealed : envelopes[i].iv = envelopes[i].nonce


\* C21: for all plaintexts and keys, decrypt(encrypt(plaintext, key), key)
\* returns exactly plaintext: every encrypt call returns an envelope, and
\* every decrypt of an unaltered envelope under the key it was sealed with
\* returns the plaintext that was sealed.
C21_RoundTrip ==
    \A j \in DOMAIN envelopes :
        /\ envelopes[j].call = "encrypt" => envelopes[j].outcome = "sealed"
        /\ (/\ envelopes[j].call = "decrypt"
            /\ envelopes[j].key = envelopes[envelopes[j].of].key
            /\ envelopes[j].encrypted = envelopes[envelopes[j].of].encrypted
            /\ envelopes[j].tag = envelopes[envelopes[j].of].tag) =>
               /\ envelopes[j].outcome = "opened"
               /\ envelopes[j].data = envelopes[envelopes[j].of].data


\* the decrypt calls that were handed envelope i with another key, or with
\* its ciphertext or its tag altered
Mishandled ==
    {j \in DOMAIN envelopes :
        /\ envelopes[j].call = "decrypt"
        /\ \/ envelopes[j].key # envelopes[envelopes[j].of].key
           \/ envelopes[j].encrypted # envelopes[envelopes[j].of].encrypted
           \/ envelopes[j].tag # envelopes[envelopes[j].of].tag}

\* C22: decrypt fails closed: a decrypt under another key than the sealing
\* key, or of an envelope whose ciphertext or tag was altered, throws and
\* returns no plaintext, and the error is the same one in every such case
\* (the authentication error, or on a runtime without createDecipher the
\* error of the missing function).
C22_DecryptFailsClosed ==
    \A j \in Mishandled :
        /\ envelopes[j].outcome = "threw"
        /\ envelopes[j].data = <<>>
        /\ envelopes[j].error \in {AuthError, NoDecipherError}


\* C23: deriveMasterKey is deterministic in (password, salt): two calls with
\* the same password and the same supplied salt, the empty string included,
\* return the same key; a call with a supplied salt returns that salt
\* unchanged and draws no random salt.
C23_DeriveDeterministic ==
    /\ \A i, j \in DOMAIN derived :
           (/\ derived[i].arg # Omitted
            /\ derived[i].arg = derived[j].arg
            /\ derived[i].secret = derived[j].secret) =>
               derived[i].key = derived[j].key
    /\ \A i \in DOMAIN derived :
           derived[i].arg # Omitted =>
               derived[i].salt = derived[i].arg /\ ~derived[i].drawn

\* C24: deriveMasterKey fails with the derivation error exactly when the
\* supplied salt does not decode to 32 bytes, with the input-too-large error
\* when the secret is longer than the cap, and for no other input.
C24_DeriveFailures ==
    \A i \in DOMAIN derived :
        LET d == derived[i]
            badSalt == d.arg # Omitted /\ Len(HexDecode(d.arg)) # SALT_BYTES
            tooLarge == d.secret.bytes > SecretCap
        IN /\ (badSalt /\ ~tooLarge) => d.outcome = "DerivationError"
           /\ (tooLarge /\ ~badSalt) => d.outcome = "InputTooLarge"
           /\ (badSalt \/ tooLarge) => d.outcome # "returned"
           /\ (~badSalt /\ ~tooLarge) => d.outcome = "returned"


\* C25: a session row created by login carries a token that lives one day,
\* or seven with the remember flag, and an expires_at that is the instant
\* the token expires; a refresh leaves the session with an expires_at that
\* is not earlier than the one it had.
C25_ExpiryPolicy ==
    [][ /\ \A s \in sessions' :
               (\A o \in sessions : o.id # s.id) =>
                   /\ s.token.exp - s.token.iat \in {DaySeconds, 7 * DaySeconds}
                   /\ s.expires_at = s.token.exp * TicksPerSecond
        /\ \A o \in sessions, s \in sessions' :
               (o.id = s.id /\ resp'.kind = "refresh") => s.expires_at >= o.expires_at
      ]_vars


\* C26: the rate limiter lets through, per address and window, at most
\* maxRequests requests; a request it answers 429 is not counted; a request
\* of one address leaves the entry of every other address alone; a request
\* that arrives after the reset time of its address is let through.
C26_RateLimiterBound ==
    [][ limiter'.n = limiter.n + 1 =>
          /\ \A ip \in Ips : limiter'.admitted[ip] <= limiter'.maxRequests
          /\ limiter'.status = 429 => limiter'.requests = limiter.requests
          /\ \A ip \in Ips \ {limiter'.ip} :
                 limiter'.requests[ip] = limiter.requests[ip]
          /\ (/\ limiter.requests[limiter'.ip] # NoEntry
              /\ limiter.now > limiter.requests[limiter'.ip].resetTime) =>
                 limiter'.status = 200 ]_vars


\* C27: under any interleaving of register requests no two users share an
\* email, and a register request that gets its answer while its email
\* already has a user is answered 409 unless the storage layer failed.
C27_DuplicateRegisterConflict ==
    [][ /\ \A u, v \in users' : u.email = v.email => u = v
        /\ \A r \in Slots :
               (/\ req[r].pc = "reg_insert"
                /\ req'[r].pc = "idle"
                /\ UsersByEmail(req[r].email) # {}
                /\ faults' = faults) =>
                   resp'.status = 409 ]_vars


\* C28: after a 401 the response interceptor posts at most one refresh for
\* the request, retries the request at most once, and when the request has
\* settled it was either retried once or the stored auth state was cleared
\* and the page sent to /login.
C28_InterceptorSettles ==
    /\ interceptor.refreshes <= 1
    /\ interceptor.retries <= 1
    /\ (interceptor.settled # "none" /\ interceptor.saw401) =>
           \/ interceptor.retries = 1
           \/ ~interceptor.stored /\ interceptor.redirected


\* C29: in every state of the auth store isAuthenticated is true exactly
\* when token and user are both non-null, and the Authorization default
\* header is set exactly when token is non-null.
C29_StoreConsistent ==
    /\ store.isAuthenticated <=> (store.token # 0 /\ store.user # 0)
    /\ store.header # 0 <=> store.token # 0


Sent(statement) == \E i \in DOMAIN pool.statements : pool.statements[i] = statement

\* C30: a finished transaction has sent COMMIT exactly when its callback
\* completed without error; when the callback threw it has sent ROLLBACK
\* and thrown the callback's error; and every finished call of transaction
\* or query that acquired a client has released it exactly once, never
\* more than once on the way.
C30_TransactionContract ==
    /\ pool.released <= pool.acquired
    /\ pool.pc = "done" =>
           /\ pool.released = pool.acquired
           /\ pool.kind = "transaction" =>
                  /\ Sent("COMMIT") <=> pool.callback = "ok"
                  /\ pool.callback = "threw" =>
                         Sent("ROLLBACK") /\ pool.thrown = "callback"
====
